---- MODULE Spec2Model ----
(***************************************************************************)
(* A model of federated-types' cli.js: the manifest locator, the           *)
(* identifier rewriter and the publisher, over a file system shared by     *)
(* the runs of the tool.                                                   *)
(*                                                                         *)
(* Strings are sequences of one-character strings, so that endsWith,       *)
(* includes, path.join and the regular expressions are computed and not    *)
(* assumed.                                                                *)
(***************************************************************************)
EXTENDS Naturals, Sequences, FiniteSets, TLC

VARIABLES
    listing,      \* the tree under the working directory: directory -> its readdirSync listing
    fpc,          \* locator run: "build" (the tree is being laid out) or "done"
    findResult,   \* what findFederationConfig('./') returned, and the directories it read
    federationConfig, \* rewriter run: the manifest, [name, exposes: sequence of [key, path]]
    emitted,      \* rewriter run: the declaration text the engine emitted, as lines
    typing,       \* rewriter run: the variable typing of lines 91-118
    moduleNames,  \* rewriter run: the array moduleNames of lines 94-98
    mi,           \* rewriter run: how many elements moduleNames.forEach has processed
    rpc,          \* rewriter run: "emitted", "rewriting" or "written"
    outputDir,    \* lines 26-28: the output directory the runs of the tool share
    disk,         \* the files of outputDir: <name>.d.ts per manifest name, package.json, index.d.ts
    proc,         \* the runs of the tool: position in the script, locals, exit status, output
    succeeded,    \* history: the manifest names of the runs that reached 'Success!'
    staleWrite    \* history: index.d.ts was written from a view of it that was no longer current

findVars == <<listing, fpc, findResult>>

rewriteVars == <<federationConfig, emitted, typing, moduleNames, mi, rpc>>

runVars == <<outputDir, disk, proc, succeeded, staleWrite>>

vars == <<listing, fpc, findResult, federationConfig, emitted, typing, moduleNames, mi, rpc,
          outputDir, disk, proc, succeeded, staleWrite>>

-----------------------------------------------------------------------------
(* Strings *)

\* String.prototype.endsWith
EndsWith(s, t) ==
    /\ Len(t) <= Len(s)
    /\ SubSeq(s, Len(s) - Len(t) + 1, Len(s)) = t

\* String.prototype.includes / Buffer.prototype.includes
Includes(s, t) ==
    \E i \in 1..(Len(s) + 1) :
        /\ i + Len(t) - 1 <= Len(s)
        /\ SubSeq(s, i, i + Len(t) - 1) = t

RECURSIVE Concat(_)
Concat(ss) == IF ss = <<>> THEN <<>> ELSE Head(ss) \o Concat(Tail(ss))

RECURSIVE JoinWith(_, _)
JoinWith(ss, sep) ==
    IF ss = <<>> THEN <<>>
    ELSE IF Len(ss) = 1 THEN ss[1]
    ELSE ss[1] \o sep \o JoinWith(Tail(ss), sep)

SeqRange(q) == {q[i] : i \in 1..Len(q)}

SLASH == <<"/">>

NODE_MODULES == <<"n","o","d","e","_","m","o","d","u","l","e","s">>

MANIFEST_FILE ==
    <<"f","e","d","e","r","a","t","i","o","n",".","c","o","n","f","i","g",".","j","s","o","n">>

-----------------------------------------------------------------------------
(* Manifest Locator *)

MaxEntries == 4
MaxDepth == 2

EntryNames == {MANIFEST_FILE, NODE_MODULES, <<"a">>, <<"b">>}

\* path.join(base, file), base './' being the empty sequence of segments
JoinBase(base, file) == Append(base, file)

PathStr(p) == JoinWith(p, SLASH)

Undefined == [found |-> FALSE]

\* line 39, with the node_modules test left out
IsQueuedNoFilter(newBase, isDir) == isDir

\* line 39: fs.statSync(newBase).isDirectory() && !newBase.includes('node_modules')
IsQueued(newBase, isDir) ==
    isDir /\ ~Includes(PathStr(newBase), NODE_MODULES)

\* lines 34-42: the loop over files; returns at the manifest, else the queue
RECURSIVE ScanFiles(_, _, _, _)
ScanFiles(base, files, i, queue) ==
    IF i > Len(files) THEN [returned |-> FALSE, queue |-> queue]
    ELSE LET file == files[i].name
             newBase == JoinBase(base, file)
         IN IF file = MANIFEST_FILE
            THEN [returned |-> TRUE, value |-> [found |-> TRUE, path |-> newBase]]
            ELSE IF IsQueued(newBase, files[i].isDir)
                 THEN ScanFiles(base, files, i + 1, Append(queue, newBase))
                 ELSE ScanFiles(base, files, i + 1, queue)

\* lines 30-47; reads: the directories readdirSync was called on, in order
RECURSIVE findFederationConfig(_, _)
findFederationConfig(fs, base) ==
    LET files == fs[base]
        scan == ScanFiles(base, files, 1, <<>>)
    IN IF scan.returned
       THEN [ret |-> scan.value, reads |-> <<base>>]
       ELSE IF Len(scan.queue) > 0
            THEN LET r == findFederationConfig(fs, scan.queue[1])
                 IN [ret |-> r.ret, reads |-> <<base>> \o r.reads]
            ELSE [ret |-> Undefined, reads |-> <<base>>]

Root == <<>>

EntryCount(fs) ==
    LET RECURSIVE Sum(_)
        Sum(S) == IF S = {} THEN 0
                  ELSE LET d == CHOOSE x \in S : TRUE
                       IN Len(fs[d]) + Sum(S \ {d})
    IN Sum(DOMAIN fs)

-----------------------------------------------------------------------------
(* Identifier Rewriter *)

\* The declaration text is a sequence of lines. A line is
\*   [k |-> "declare", q |-> id]    declare module "id" {
\*   [k |-> "import", q |-> id]     a line of a module body that names module "id"
\*   [k |-> "reexport", q |-> id]   export * from "id"
\*   [k |-> "body"]                 a line of emitted content with no quoted string
\*   [k |-> "close"]                }
Quoted(line) == line.k \in {"declare", "import", "reexport"}

MaxExposes == 3
MaxBlocks == 2

ManifestNames == {<<"p">>}
ExposeKeys == {<<".","/","a">>, <<".","/","b">>, <<".","/","c">>}
SourcePaths == {<<"a">>, <<"p","/","a">>, <<"b">>}
ModuleIds == {<<"a">>, <<"p","/","a">>, <<"b">>}
NoImport == <<>>

\* s split at the character sep: the pieces from position i on, cur being the piece under way
RECURSIVE SplitAt(_, _, _, _)
SplitAt(s, sep, i, cur) ==
    IF i > Len(s) THEN <<cur>>
    ELSE IF s[i] = sep THEN <<cur>> \o SplitAt(s, sep, i + 1, <<>>)
    ELSE SplitAt(s, sep, i + 1, Append(cur, s[i]))

\* path.posix.normalize's walk over the segments: "" and "." dropped, ".." resolved
RECURSIVE ResolveSegs(_, _, _)
ResolveSegs(segs, stack, isAbs) ==
    IF segs = <<>> THEN stack
    ELSE LET seg == Head(segs)
             rest == Tail(segs)
         IN IF seg = <<>> \/ seg = <<".">> THEN ResolveSegs(rest, stack, isAbs)
            ELSE IF seg = <<".", ".">>
                 THEN IF stack # <<>> /\ stack[Len(stack)] # <<".", ".">>
                      THEN ResolveSegs(rest, SubSeq(stack, 1, Len(stack) - 1), isAbs)
                      ELSE IF isAbs THEN ResolveSegs(rest, stack, isAbs)
                           ELSE ResolveSegs(rest, Append(stack, seg), isAbs)
                 ELSE ResolveSegs(rest, Append(stack, seg), isAbs)

\* path.normalize (POSIX)
PathNormalize(s) ==
    IF s = <<>> THEN <<".">>
    ELSE LET isAbs == s[1] = "/"
             trailing == s[Len(s)] = "/"
             body == JoinWith(ResolveSegs(SplitAt(s, "/", 1, <<>>), <<>>, isAbs), SLASH)
             dotted == IF body = <<>> /\ ~isAbs THEN <<".">> ELSE body
             tailed == IF body # <<>> /\ trailing THEN dotted \o SLASH ELSE dotted
         IN IF isAbs THEN SLASH \o tailed ELSE tailed

\* path.join(a, b) (POSIX)
PathJoin(a, b) ==
    IF a = <<>> /\ b = <<>> THEN <<".">>
    ELSE IF a = <<>> THEN PathNormalize(b)
    ELSE IF b = <<>> THEN PathNormalize(a)
    ELSE PathNormalize(a \o SLASH \o b)

\* .replace(/[\\/]/g, '/')
ToForwardSlashes(s) == [i \in 1..Len(s) |-> IF s[i] \in {"\\", "/"} THEN "/" ELSE s[i]]

\* lines 63-66
getModuleDeclareName(name, exposeName) == ToForwardSlashes(PathJoin(name, exposeName))

\* one character of a RegExp source built from an identifier: "." matches any
\* character of a line, every other character of the alphabet matches itself
RegexCharMatches(pc, c) == pc = "." \/ pc = c

\* whether RegExp(`"${name}"`) matches the quoted string "q"
QuotedMatches(name, q) ==
    /\ Len(q) = Len(name)
    /\ \A i \in 1..Len(name) : RegexCharMatches(name[i], q[i])

\* lines 93-98: every declare module "(.*)" of the text, in order, repetitions
\* kept ("." stays within a line, so the capture is the name the line declares)
RECURSIVE ScanModuleNames(_)
ScanModuleNames(text) ==
    IF text = <<>> THEN <<>>
    ELSE IF Head(text).k = "declare"
         THEN <<Head(text).q>> \o ScanModuleNames(Tail(text))
         ELSE ScanModuleNames(Tail(text))

\* line 102: compileKeys.filter(key => federationConfig.exposes[key].endsWith(name))
MatchingKeys(cfg, name) ==
    LET Ends(e) == EndsWith(e.path, name)
        hits == SelectSeq(cfg.exposes, Ends)
    IN [i \in 1..Len(hits) |-> hits[i].key]

\* line 102: const [exposeName = name, ...aliases]
ExposeNameOf(cfg, name) ==
    LET keys == MatchingKeys(cfg, name)
    IN IF keys = <<>> THEN name ELSE keys[1]

AliasesOf(cfg, name) ==
    LET keys == MatchingKeys(cfg, name)
    IN IF keys = <<>> THEN <<>> ELSE Tail(keys)

\* line 115: typing.replace(regex, `"${moduleDeclareName}"`): global, so every
\* quoted string the expression matches is replaced (the names of the model hold
\* no "$", which the replacement string would interpret)
ReplaceQuoted(text, name, moduleDeclareName) ==
    [i \in 1..Len(text) |->
        IF Quoted(text[i]) /\ QuotedMatches(name, text[i].q)
        THEN [text[i] EXCEPT !.q = moduleDeclareName]
        ELSE text[i]]

\* lines 108-112
createAliasModule(cfg, moduleDeclareName, alias) ==
    << [k |-> "declare", q |-> getModuleDeclareName(cfg.name, alias)],
       [k |-> "reexport", q |-> moduleDeclareName],
       [k |-> "close"] >>

RECURSIVE AliasModules(_, _, _)
AliasModules(cfg, moduleDeclareName, aliases) ==
    IF aliases = <<>> THEN <<>>
    ELSE createAliasModule(cfg, moduleDeclareName, Head(aliases))
            \o AliasModules(cfg, moduleDeclareName, Tail(aliases))

\* lines 100-118: one call of the forEach callback
RewriteOne(cfg, text, name) ==
    LET moduleDeclareName == getModuleDeclareName(cfg.name, ExposeNameOf(cfg, name))
    IN ReplaceQuoted(text, name, moduleDeclareName)
          \o AliasModules(cfg, moduleDeclareName, AliasesOf(cfg, name))

\* lines 100-118: the whole forEach
RECURSIVE RewriteAll(_, _, _)
RewriteAll(cfg, text, names) ==
    IF names = <<>> THEN text
    ELSE RewriteAll(cfg, RewriteOne(cfg, text, Head(names)), Tail(names))

\* The engine's output for one compiled file: a module block that may name another module
Block(id, imp) ==
    <<[k |-> "declare", q |-> id]>>
        \o (IF imp = NoImport THEN <<>> ELSE <<[k |-> "import", q |-> imp]>>)
        \o <<[k |-> "body"], [k |-> "close"]>>

Blocks == {Block(id, imp) : id \in ModuleIds, imp \in ModuleIds \cup {NoImport}}

Blobs == UNION {{Concat(bs) : bs \in [1..n -> Blocks]} : n \in 0..MaxBlocks}

DistinctKeys(es) == \A i, j \in 1..Len(es) : i # j => es[i].key # es[j].key

ExposesLists ==
    UNION {{es \in [1..n -> [key : ExposeKeys, path : SourcePaths]] : DistinctKeys(es)}
              : n \in 0..MaxExposes}

Manifests == [name : ManifestNames, exposes : ExposesLists]

-----------------------------------------------------------------------------
(* The runs of the tool and the output directory: values *)

AllProcs == {1, 2}

RunNames == {<<"p">>, <<"p","q">>}

RunManifests ==
    { [name |-> <<"p">>,
       exposes |-> << [key |-> <<".","/","a">>, path |-> <<"a">>],
                      [key |-> <<".","/","b">>, path |-> <<"a">>] >>],
      [name |-> <<"p","q">>,
       exposes |-> << [key |-> <<".","/","a">>, path |-> <<"a">>] >>] }

RunBlobs == {<<>>, Block(<<"a">>, NoImport)}

NoConfig == [name |-> <<>>, exposes |-> <<>>]

AbsentText == [exists |-> FALSE, data |-> <<>>]

AbsentPackageJson == [exists |-> FALSE, data |-> "none"]

\* typings.package.tmpl.json, copied at line 130
TemplatePackageJson == [exists |-> TRUE, data |-> "template"]

\* a package.json somebody put into the output directory
CustomPackageJson == [exists |-> TRUE, data |-> "custom"]

EmptyDisk == [dts |-> [n \in RunNames |-> AbsentText], pkg |-> AbsentPackageJson, index |-> AbsentText]

Silent == [prefixed |-> FALSE, unableToFind |-> FALSE, detail |-> FALSE]

IdleProc ==
    [pc |-> "idle", federationConfig |-> NoConfig, typing |-> <<>>, contents |-> <<>>,
     exitCode |-> 0, outcome |-> "none", stderr |-> Silent,
     treeHasManifest |-> FALSE, emitInvoked |-> FALSE, before |-> EmptyDisk]

-----------------------------------------------------------------------------
(* Identifier Rewriter as a run of its own *)

\* lines 58-60 and 83: the manifest is loaded and the engine has emitted outFile
RewriteInit ==
    /\ federationConfig \in Manifests
    /\ emitted \in Blobs
    /\ typing = <<>>
    /\ moduleNames = <<>>
    /\ mi = 0
    /\ rpc = "emitted"
    /\ listing = (Root :> <<>>)
    /\ fpc = "idle"
    /\ findResult = [ret |-> Undefined, reads |-> <<>>]
    /\ outputDir = <<>>
    /\ disk = EmptyDisk
    /\ proc = [p \in AllProcs |-> IdleProc]
    /\ succeeded = {}
    /\ staleWrite = FALSE

\* lines 91-98
ReadAndScan ==
    /\ rpc = "emitted"
    /\ typing' = emitted
    /\ moduleNames' = ScanModuleNames(emitted)
    /\ mi' = 0
    /\ rpc' = "rewriting"
    /\ UNCHANGED <<federationConfig, emitted>>
    /\ UNCHANGED <<findVars, runVars>>

\* lines 100-118: the next element of moduleNames
ForEachStep ==
    /\ rpc = "rewriting"
    /\ mi < Len(moduleNames)
    /\ typing' = RewriteOne(federationConfig, typing, moduleNames[mi + 1])
    /\ mi' = mi + 1
    /\ UNCHANGED <<federationConfig, emitted, moduleNames, rpc>>
    /\ UNCHANGED <<findVars, runVars>>

\* lines 120-122: the text is final and written
WriteTyping ==
    /\ rpc = "rewriting"
    /\ mi = Len(moduleNames)
    /\ rpc' = "written"
    /\ UNCHANGED <<federationConfig, emitted, typing, moduleNames, mi>>
    /\ UNCHANGED <<findVars, runVars>>

RewriteNext == ReadAndScan \/ ForEachStep \/ WriteTyping

SpecRewrite == RewriteInit /\ [][RewriteNext]_vars

-----------------------------------------------------------------------------
(* Manifest Locator as a run of its own *)

FindInit ==
    /\ listing = (Root :> <<>>)
    /\ fpc = "build"
    /\ findResult = [ret |-> Undefined, reads |-> <<>>]
    /\ federationConfig = [name |-> <<>>, exposes |-> <<>>]
    /\ emitted = <<>>
    /\ typing = <<>>
    /\ moduleNames = <<>>
    /\ mi = 0
    /\ rpc = "idle"
    /\ outputDir = <<>>
    /\ disk = EmptyDisk
    /\ proc = [p \in AllProcs |-> IdleProc]
    /\ succeeded = {}
    /\ staleWrite = FALSE

\* the environment lays out the tree: a file or a directory appears in a directory
AddEntry ==
    /\ fpc = "build"
    /\ EntryCount(listing) < MaxEntries
    /\ \E d \in DOMAIN listing, n \in EntryNames, isDir \in BOOLEAN :
        /\ \A i \in 1..Len(listing[d]) : listing[d][i].name # n
        /\ isDir => Len(d) < MaxDepth
        /\ listing' =
             IF isDir
             THEN [p \in DOMAIN listing \cup {Append(d, n)} |->
                     IF p = d THEN Append(listing[d], [name |-> n, isDir |-> TRUE])
                     ELSE IF p = Append(d, n) THEN <<>>
                     ELSE listing[p]]
             ELSE [listing EXCEPT ![d] = Append(@, [name |-> n, isDir |-> FALSE])]
    /\ UNCHANGED <<fpc, findResult>>
    /\ UNCHANGED <<rewriteVars, runVars>>

\* line 49: const federationConfigPath = findFederationConfig('./')
Locate ==
    /\ fpc = "build"
    /\ findResult' = findFederationConfig(listing, Root)
    /\ fpc' = "done"
    /\ UNCHANGED listing
    /\ UNCHANGED <<rewriteVars, runVars>>

FindNext == AddEntry \/ Locate

SpecFind == FindInit /\ [][FindNext]_vars

-----------------------------------------------------------------------------
(* Claims about the Manifest Locator *)

HasManifestChild(fs, d) == \E i \in 1..Len(fs[d]) : fs[d][i].name = MANIFEST_FILE

\* the positions, in listing order, of d's child directories whose path does not contain node_modules
EligibleIdx(fs, d) ==
    {i \in 1..Len(fs[d]) :
        /\ fs[d][i].isDir
        /\ ~Includes(PathStr(Append(d, fs[d][i].name)), NODE_MODULES)}

FirstIdx(S) == CHOOSE i \in S : \A j \in S : i <= j

FirstEligibleChild(fs, d) == Append(d, fs[d][FirstIdx(EligibleIdx(fs, d))].name)

\* the narrow traversal as the specification words it
RECURSIVE NarrowSearch(_, _)
NarrowSearch(fs, d) ==
    IF HasManifestChild(fs, d) THEN [found |-> TRUE, path |-> Append(d, MANIFEST_FILE)]
    ELSE IF EligibleIdx(fs, d) = {} THEN Undefined
    ELSE NarrowSearch(fs, FirstEligibleChild(fs, d))

\* a manifest somewhere in the subtree of d, whatever the directory names
RECURSIVE ManifestBelow(_, _)
ManifestBelow(fs, d) ==
    \/ HasManifestChild(fs, d)
    \/ \E i \in 1..Len(fs[d]) :
          /\ fs[d][i].isDir
          /\ fs[d][i].name # MANIFEST_FILE
          /\ ManifestBelow(fs, Append(d, fs[d][i].name))

\* C8: findFederationConfig(base) returns the manifest that is an immediate child
\* of base if there is one, otherwise the result of searching the first child
\* directory (listing order) whose path does not contain node_modules, otherwise
\* "not found"; and it reads no directory but those on that single chain.
C8_NarrowTraversal ==
    /\ \A d \in DOMAIN listing :
          findFederationConfig(listing, d).ret = NarrowSearch(listing, d)
    /\ fpc = "done" =>
          /\ findResult.ret = NarrowSearch(listing, Root)
          /\ findResult.reads[1] = Root
          /\ \A k \in 2..Len(findResult.reads) :
                LET parent == findResult.reads[k - 1]
                IN /\ ~HasManifestChild(listing, parent)
                   /\ EligibleIdx(listing, parent) # {}
                   /\ findResult.reads[k] = FirstEligibleChild(listing, parent)

\* C8 witness: the manifest exists only under a later sibling and the search says "not found"
C8_LaterSiblingMissed ==
    /\ fpc = "done"
    /\ findResult.ret = Undefined
    /\ ~HasManifestChild(listing, Root)
    /\ \E i, j \in EligibleIdx(listing, Root) :
          /\ i < j
          /\ i = FirstIdx(EligibleIdx(listing, Root))
          /\ ~ManifestBelow(listing, Append(Root, listing[Root][i].name))
          /\ HasManifestChild(listing, Append(Root, listing[Root][j].name))

-----------------------------------------------------------------------------
(* The tool: one run of cli.js, step by step *)

TYPES_DIR == <<"@","t","y","p","e","s">>

FEDERATED_TYPES ==
    <<"_","_","f","e","d","e","r","a","t","e","d","_","t","y","p","e","s">>

\* line 28: path.resolve(nodeModules, '@types/__federated_types/'), node_modules found in /w
DefaultOutputDir == <<"/","w","/">> \o NODE_MODULES \o SLASH \o TYPES_DIR \o SLASH \o FEDERATED_TYPES

\* line 27: path.resolve('./', outDirArg) for --outputDir types, run in /w
ArgOutputDir == <<"/","w","/","t","y","p","e","s">>

OutputDirs == {DefaultOutputDir, ArgOutputDir}

\* line 125: outputDir.includes(path.join('node_modules', '@types'))
WritesToNodeModulesTypes(dir) == Includes(dir, PathJoin(NODE_MODULES, TYPES_DIR))

\* line 128, read as if (true)
PackageJsonMissingAlways(d) == TRUE

\* line 128: !fs.existsSync(packageJsonPath)
PackageJsonMissing(d) == ~d.pkg.exists

\* line 140
ImportStatement(name) ==
    <<"e","x","p","o","r","t"," ","*"," ","f","r","o","m"," ","'",".","/">> \o name \o <<"'",";">>

NEWLINE == <<"\n">>

\* line 148, read as if the statement were never there
IndexHasImportNever(contents, importStatement) == FALSE

\* line 148: contents.includes(importStatement)
IndexHasImport(contents, importStatement) == Includes(contents, importStatement)

\* line 149, the old contents forgotten
UpdatedIndexWithoutContents(contents, importStatement) == importStatement \o NEWLINE

\* line 149: `${contents}${importStatement}\n`
UpdatedIndex(contents, importStatement) == contents \o importStatement \o NEWLINE

\* line 51, read as a test that never holds
ConfigNotFoundNever(path) == FALSE

\* line 51: federationConfigPath === undefined
ConfigNotFound(path) == path = Undefined

File(name, isDir) == [name |-> name, isDir |-> isDir]

TreeEmpty == (Root :> <<>>)

TreeNoManifest ==
    (Root :> <<File(<<"a">>, TRUE)>>) @@ (<<<<"a">>>> :> <<File(<<"b">>, FALSE)>>)

TreeManifestAtRoot == (Root :> <<File(<<"a">>, FALSE), File(MANIFEST_FILE, FALSE)>>)

TreeManifestInFirstDir ==
    (Root :> <<File(NODE_MODULES, TRUE), File(<<"a">>, TRUE)>>)
        @@ (<<NODE_MODULES>> :> <<>>) @@ (<<<<"a">>>> :> <<File(MANIFEST_FILE, FALSE)>>)

TreeManifestInLaterDir ==
    (Root :> <<File(<<"a">>, TRUE), File(<<"b">>, TRUE)>>)
        @@ (<<<<"a">>>> :> <<>>) @@ (<<<<"b">>>> :> <<File(MANIFEST_FILE, FALSE)>>)

WorkingTrees ==
    {TreeEmpty, TreeNoManifest, TreeManifestAtRoot, TreeManifestInFirstDir, TreeManifestInLaterDir}

\* process.exit(code), or the end of the script
Exited(rec, code, outcome, stderr) ==
    [rec EXCEPT !.pc = "exited", !.exitCode = code, !.outcome = outcome, !.stderr = stderr]

\* lines 154-157: console.error(`ERROR:`, e); process.exit(1)
Caught(rec) ==
    Exited(rec, 1, "caught", [prefixed |-> TRUE, unableToFind |-> FALSE, detail |-> TRUE])

\* an exception no handler of the script catches: Node prints the error and its
\* stack to standard error and ends the process with status 1
Uncaught(rec) ==
    Exited(rec, 1, "uncaught", [prefixed |-> FALSE, unableToFind |-> FALSE, detail |-> TRUE])

RunInit ==
    /\ outputDir \in OutputDirs
    /\ disk \in {[EmptyDisk EXCEPT !.pkg = k] : k \in {AbsentPackageJson, CustomPackageJson}}
    /\ proc = [p \in AllProcs |-> IdleProc]
    /\ succeeded = {}
    /\ staleWrite = FALSE
    /\ listing = (Root :> <<>>)
    /\ fpc = "idle"
    /\ findResult = [ret |-> Undefined, reads |-> <<>>]
    /\ federationConfig = NoConfig
    /\ emitted = <<>>
    /\ typing = <<>>
    /\ moduleNames = <<>>
    /\ mi = 0
    /\ rpc = "idle"

\* lines 49-56: the tool is started in some working directory
Start(p) ==
    /\ proc[p].pc = "idle"
    /\ \E tree \in WorkingTrees :
          LET federationConfigPath == findFederationConfig(tree, Root).ret
              rec == [proc[p] EXCEPT !.treeHasManifest = ManifestBelow(tree, Root),
                                     !.before = disk]
          IN proc' = [proc EXCEPT ![p] =
                IF ConfigNotFound(federationConfigPath)
                THEN Exited(rec, 1, "notfound",
                            [prefixed |-> TRUE, unableToFind |-> TRUE, detail |-> FALSE])
                ELSE [rec EXCEPT !.pc = "load"]]
    /\ UNCHANGED <<outputDir, disk, succeeded, staleWrite, findVars, rewriteVars>>

\* lines 58-61: require(federationConfigPath), outside the try block
Load(p) ==
    /\ proc[p].pc = "load"
    /\ \/ \E cfg \in RunManifests :
             proc' = [proc EXCEPT ![p] = [@ EXCEPT !.pc = "unlink", !.federationConfig = cfg]]
       \/ \* the file is not JSON, or has no exposes: require or Object.values throws
          proc' = [proc EXCEPT ![p] = Uncaught(@)]
    /\ UNCHANGED <<outputDir, disk, succeeded, staleWrite, findVars, rewriteVars>>

\* lines 69-71: the typings file of an earlier run is removed (existsSync and
\* unlinkSync taken as one step), or unlinkSync throws
Unlink(p) ==
    /\ proc[p].pc = "unlink"
    /\ \/ /\ disk' = [disk EXCEPT !.dts[proc[p].federationConfig.name] = AbsentText]
          /\ proc' = [proc EXCEPT ![p] = [@ EXCEPT !.pc = "emit"]]
       \/ /\ disk.dts[proc[p].federationConfig.name].exists
          /\ proc' = [proc EXCEPT ![p] = Caught(@)]
          /\ UNCHANGED disk
    /\ UNCHANGED <<outputDir, succeeded, staleWrite, findVars, rewriteVars>>

\* lines 74-89: the engine emits outFile, or skips emission, or throws
Emit(p) ==
    /\ proc[p].pc = "emit"
    /\ \/ \E blob \in RunBlobs :
             /\ disk' = [disk EXCEPT !.dts[proc[p].federationConfig.name] =
                            [exists |-> TRUE, data |-> blob]]
             /\ proc' = [proc EXCEPT ![p] = [@ EXCEPT !.pc = "read", !.emitInvoked = TRUE]]
       \/ /\ proc' = [proc EXCEPT ![p] =
                Exited([@ EXCEPT !.emitInvoked = TRUE], 0, "skipped", Silent)]
          /\ UNCHANGED disk
       \/ /\ proc' = [proc EXCEPT ![p] = Caught([@ EXCEPT !.emitInvoked = TRUE])]
          /\ UNCHANGED disk
    /\ UNCHANGED <<outputDir, succeeded, staleWrite, findVars, rewriteVars>>

\* line 91: let typing = fs.readFileSync(outFile)
ReadTyping(p) ==
    /\ proc[p].pc = "read"
    /\ LET f == disk.dts[proc[p].federationConfig.name]
       IN proc' = [proc EXCEPT ![p] =
             IF f.exists THEN [@ EXCEPT !.pc = "rewrite", !.typing = f.data] ELSE Caught(@)]
    /\ UNCHANGED <<outputDir, disk, succeeded, staleWrite, findVars, rewriteVars>>

\* lines 93-122: the identifiers are rewritten and the text written to outFile
RewriteAndWrite(p) ==
    /\ proc[p].pc = "rewrite"
    /\ LET cfg == proc[p].federationConfig
           final == RewriteAll(cfg, proc[p].typing, ScanModuleNames(proc[p].typing))
       IN \/ /\ disk' = [disk EXCEPT !.dts[cfg.name] = [exists |-> TRUE, data |-> final]]
             /\ proc' = [proc EXCEPT ![p] = [@ EXCEPT !.pc = "package", !.typing = final]]
          \/ /\ proc' = [proc EXCEPT ![p] = Caught([@ EXCEPT !.typing = final])]
             /\ UNCHANGED disk
    /\ UNCHANGED <<outputDir, succeeded, staleWrite, findVars, rewriteVars>>

\* lines 125-136: is a package.json wanted?
CheckPackageJson(p) ==
    /\ proc[p].pc = "package"
    /\ proc' = [proc EXCEPT ![p] = [@ EXCEPT !.pc =
          IF WritesToNodeModulesTypes(outputDir) /\ PackageJsonMissing(disk)
          THEN "copy" ELSE "index"]]
    /\ UNCHANGED <<outputDir, disk, succeeded, staleWrite, findVars, rewriteVars>>

\* line 130: fs.copyFileSync(template, packageJsonPath)
CopyPackageJson(p) ==
    /\ proc[p].pc = "copy"
    /\ \/ /\ disk' = [disk EXCEPT !.pkg = TemplatePackageJson]
          /\ proc' = [proc EXCEPT ![p] = [@ EXCEPT !.pc = "index"]]
       \/ /\ proc' = [proc EXCEPT ![p] = Caught(@)]
          /\ UNCHANGED disk
    /\ UNCHANGED <<outputDir, succeeded, staleWrite, findVars, rewriteVars>>

\* line 142: fs.existsSync(indexPath)
CheckIndex(p) ==
    /\ proc[p].pc = "index"
    /\ proc' = [proc EXCEPT ![p] = [@ EXCEPT !.pc =
          IF ~disk.index.exists THEN "create" ELSE "readIndex"]]
    /\ UNCHANGED <<outputDir, disk, succeeded, staleWrite, findVars, rewriteVars>>

\* lines 143-144 and 153: index.d.ts is created; 'Success!'
CreateIndex(p) ==
    /\ proc[p].pc = "create"
    /\ LET name == proc[p].federationConfig.name
       IN \/ /\ disk' = [disk EXCEPT !.index =
                    [exists |-> TRUE, data |-> ImportStatement(name) \o NEWLINE]]
             /\ proc' = [proc EXCEPT ![p] = Exited(@, 0, "success", Silent)]
             /\ succeeded' = succeeded \cup {name}
             /\ staleWrite' = (staleWrite \/ disk.index.exists)
          \/ /\ proc' = [proc EXCEPT ![p] = Caught(@)]
             /\ UNCHANGED <<disk, succeeded, staleWrite>>
    /\ UNCHANGED <<outputDir, findVars, rewriteVars>>

\* lines 146-147: const contents = fs.readFileSync(indexPath)
ReadIndex(p) ==
    /\ proc[p].pc = "readIndex"
    /\ proc' = [proc EXCEPT ![p] =
          IF disk.index.exists
          THEN [@ EXCEPT !.pc = "update", !.contents = disk.index.data]
          ELSE Caught(@)]
    /\ UNCHANGED <<outputDir, disk, succeeded, staleWrite, findVars, rewriteVars>>

\* lines 148-153: the statement is appended unless contents has it; 'Success!'
UpdateIndex(p) ==
    /\ proc[p].pc = "update"
    /\ LET name == proc[p].federationConfig.name
           contents == proc[p].contents
       IN \/ /\ IndexHasImport(contents, ImportStatement(name))
             /\ proc' = [proc EXCEPT ![p] = Exited(@, 0, "success", Silent)]
             /\ succeeded' = succeeded \cup {name}
             /\ UNCHANGED <<disk, staleWrite>>
          \/ /\ ~IndexHasImport(contents, ImportStatement(name))
             /\ disk' = [disk EXCEPT !.index =
                    [exists |-> TRUE, data |-> UpdatedIndex(contents, ImportStatement(name))]]
             /\ proc' = [proc EXCEPT ![p] = Exited(@, 0, "success", Silent)]
             /\ succeeded' = succeeded \cup {name}
             /\ staleWrite' = (staleWrite \/ disk.index.data # contents)
          \/ /\ ~IndexHasImport(contents, ImportStatement(name))
             /\ proc' = [proc EXCEPT ![p] = Caught(@)]
             /\ UNCHANGED <<disk, succeeded, staleWrite>>
    /\ UNCHANGED <<outputDir, findVars, rewriteVars>>

\* the process is gone; the tool may be started again
Restart(p) ==
    /\ proc[p].pc = "exited"
    /\ proc' = [proc EXCEPT ![p] = IdleProc]
    /\ UNCHANGED <<outputDir, disk, succeeded, staleWrite, findVars, rewriteVars>>

\* the runs of the tool follow one another
Next ==
    \/ Start(1) \/ Load(1) \/ Unlink(1) \/ Emit(1) \/ ReadTyping(1) \/ RewriteAndWrite(1)
    \/ CheckPackageJson(1) \/ CopyPackageJson(1) \/ CheckIndex(1) \/ CreateIndex(1)
    \/ ReadIndex(1) \/ UpdateIndex(1) \/ Restart(1)

Spec == RunInit /\ [][Next]_vars

\* two runs of the tool at once, one per process, their file system calls interleaved
ConcNext ==
    \E p \in AllProcs :
        \/ Start(p) \/ Load(p) \/ Unlink(p) \/ Emit(p) \/ ReadTyping(p) \/ RewriteAndWrite(p)
        \/ CheckPackageJson(p) \/ CopyPackageJson(p) \/ CheckIndex(p) \/ CreateIndex(p)
        \/ ReadIndex(p) \/ UpdateIndex(p)

SpecConc == RunInit /\ [][ConcNext]_vars

-----------------------------------------------------------------------------
(* Claims about the Identifier Rewriter *)

\* the internal identifiers the scan finds in the emitted text
InternalIds == SeqRange(ScanModuleNames(emitted))

\* the public name of an internal identifier: <manifest.name>/<expose name>
PublicNameOf(id) ==
    getModuleDeclareName(federationConfig.name, ExposeNameOf(federationConfig, id))

KeyDeclareName(key) == getModuleDeclareName(federationConfig.name, key)

\* the sequence q without its repetitions, first appearances kept in order
RECURSIVE FirstAppearances(_)
FirstAppearances(q) ==
    IF q = <<>> THEN <<>>
    ELSE LET front == FirstAppearances(SubSeq(q, 1, Len(q) - 1))
             last == q[Len(q)]
         IN IF last \in SeqRange(front) THEN front ELSE Append(front, last)

RECURSIVE SumAliases(_)
SumAliases(ids) ==
    IF ids = <<>> THEN 0
    ELSE Len(AliasesOf(federationConfig, Head(ids))) + SumAliases(Tail(ids))

\* the names the rewriter is to produce: of the identifiers, and of the keys
PublicNames ==
    {PublicNameOf(id) : id \in InternalIds}
        \cup {KeyDeclareName(e.key) : e \in SeqRange(federationConfig.exposes)}

\* C1 as claimed: the written text holds no quoted internal identifier (one
\* that is itself a public name apart), every quoted internal identifier of the
\* emitted text has become its own public name, and the synthesized blocks
\* still carry the names they were made with.
C1_NoResidualInternalIds ==
    rpc = "written" =>
        /\ \A i \in 1..Len(typing) :
              (Quoted(typing[i]) /\ typing[i].q \in InternalIds)
                  => typing[i].q \in PublicNames
        /\ \A i \in 1..Len(emitted) :
              (Quoted(emitted[i]) /\ emitted[i].q \in InternalIds)
                  => typing[i].q = PublicNameOf(emitted[i].q)
        /\ \A j \in (Len(emitted) + 1)..Len(typing) :
              Quoted(typing[j]) =>
                  \/ typing[j].k = "declare"
                       /\ \E e \in SeqRange(federationConfig.exposes) :
                             typing[j].q = KeyDeclareName(e.key)
                  \/ typing[j].k = "reexport"
                       /\ \E id \in InternalIds : typing[j].q = PublicNameOf(id)

\* the keys of the manifest that map to source file f, in manifest order
KeysOfFile(f) ==
    LET Same(e) == e.path = f
        hits == SelectSeq(federationConfig.exposes, Same)
    IN [i \in 1..Len(hits) |-> hits[i].key]

\* the text holds, at line j, a block that only re-exports module target as module name
AliasBlockAt(j, name, target) ==
    /\ j + 2 <= Len(typing)
    /\ typing[j] = [k |-> "declare", q |-> name]
    /\ typing[j + 1] = [k |-> "reexport", q |-> target]
    /\ typing[j + 2] = [k |-> "close"]

\* C2 as claimed: when several keys map to one source file, the module named
\* after the first of them holds the emitted content and every other key's
\* module holds only a re-export of that module.
C2_AliasCorrectness ==
    rpc = "written" =>
        \A f \in SourcePaths :
            LET keys == KeysOfFile(f)
                primary == KeyDeclareName(keys[1])
            IN (Len(keys) >= 2 /\ f \in InternalIds) =>
                  /\ \E i \in 1..Len(emitted) :
                        /\ emitted[i] = [k |-> "declare", q |-> f]
                        /\ typing[i] = [k |-> "declare", q |-> primary]
                  /\ \A n \in 2..Len(keys) :
                        /\ \E j \in 1..Len(typing) :
                              AliasBlockAt(j, KeyDeclareName(keys[n]), primary)
                        /\ \A j \in 1..Len(typing) :
                              typing[j] = [k |-> "declare", q |-> KeyDeclareName(keys[n])]
                                  => AliasBlockAt(j, KeyDeclareName(keys[n]), primary)

\* C9 as claimed: each distinct identifier is processed once, in order of first
\* appearance, and the text gains one re-export block per alias key of each.
C9_EachIdOnce ==
    rpc = "written" =>
        /\ moduleNames = FirstAppearances(ScanModuleNames(emitted))
        /\ Len(typing) = Len(emitted)
              + 3 * SumAliases(FirstAppearances(ScanModuleNames(emitted)))

-----------------------------------------------------------------------------
(* Claims about the runs of the tool *)

AllQuiet == \A p \in AllProcs : proc[p].pc \in {"idle", "exited"}

\* the lines of index.d.ts, each without its line end
IndexLines(data) ==
    LET pieces == SplitAt(data, "\n", 1, <<>>)
    IN SubSeq(pieces, 1, Len(pieces) - 1)

\* dir has the components node_modules, @types one after the other
UnderTypesRoot(dir) ==
    LET segs == SplitAt(dir, "/", 1, <<>>)
    IN \E i \in 1..(Len(segs) - 1) : segs[i] = NODE_MODULES /\ segs[i + 1] = TYPES_DIR

\* C3: after runs that follow one another, index.d.ts holds exactly one line
\* export * from './<name>'; per manifest name of a successful run; a run for a
\* listed name leaves the file as it was and a run for a new name appends its line.
C3_IndexOneLinePerName ==
    /\ AllQuiet =>
          LET lines == IndexLines(disk.index.data)
          IN /\ disk.index.exists <=> succeeded # {}
             /\ SeqRange(lines) = {ImportStatement(n) : n \in succeeded}
             /\ \A i, j \in 1..Len(lines) : i # j => lines[i] # lines[j]
             /\ disk.index.data = Concat([i \in 1..Len(lines) |-> lines[i] \o NEWLINE])
    /\ \A p \in AllProcs :
          proc[p].outcome = "success" =>
              LET stmt == ImportStatement(proc[p].federationConfig.name)
                  b == proc[p].before.index
              IN IF stmt \in SeqRange(IndexLines(b.data))
                 THEN disk.index = b
                 ELSE disk.index.data = b.data \o stmt \o NEWLINE

\* C3 witness: a run for a name index.d.ts already lists, beside another name, has succeeded
C3_RepeatedRunDone ==
    \E p \in AllProcs :
        /\ proc[p].outcome = "success"
        /\ ImportStatement(proc[p].federationConfig.name)
              \in SeqRange(IndexLines(proc[p].before.index.data))
        /\ succeeded = RunNames

\* C4 as claimed: a run whose emission is skipped exits 0 and leaves every
\* .d.ts file of the output directory as it found it.
C4_SkipLeavesDeclarationsAlone ==
    \A p \in AllProcs :
        proc[p].outcome = "skipped" =>
            /\ proc[p].exitCode = 0
            /\ disk.dts = proc[p].before.dts
            /\ disk.index = proc[p].before.index

C6_EveryExceptionCaught ==
    \A p \in AllProcs :
        proc[p].outcome \in {"caught", "uncaught"} =>
            /\ proc[p].outcome = "caught"
            /\ proc[p].exitCode = 1
            /\ proc[p].stderr.prefixed
            /\ proc[p].stderr.detail

\* C7: started where no federation.config.json exists anywhere below the working
\* directory, the tool prints an error with "Unable to find" and exits 1, the
\* engine never invoked and the output directory as the run found it.
C7_MissingManifest ==
    \A p \in AllProcs :
        (proc[p].pc # "idle" /\ ~proc[p].treeHasManifest) =>
            /\ proc[p].pc = "exited"
            /\ proc[p].outcome = "notfound"
            /\ proc[p].exitCode = 1
            /\ proc[p].stderr.prefixed
            /\ proc[p].stderr.unableToFind
            /\ ~proc[p].emitInvoked
            /\ disk = proc[p].before

\* C7 witness: such a run has ended, in an output directory an earlier run filled
C7_NotFoundExit ==
    \E p \in AllProcs :
        /\ proc[p].outcome = "notfound"
        /\ ~proc[p].treeHasManifest
        /\ disk.index.exists
        /\ \E n \in RunNames : disk.dts[n].exists

\* C10: with two runs at once, a successful run's line is missing from
\* index.d.ts only after a write of index.d.ts that rested on a view of the file
\* another run had changed since: the check, the read and the write are not one step.
C10_LineLostOnlyByStaleWrite ==
    (\E n \in succeeded : ~Includes(disk.index.data, ImportStatement(n))) => staleWrite

\* C10 witness: both runs, for distinct manifest names, have succeeded and
\* index.d.ts lacks the line of one of them
C10_LostUpdate ==
    /\ \A p \in AllProcs : proc[p].outcome = "success"
    /\ proc[1].federationConfig.name # proc[2].federationConfig.name
    /\ \E p \in AllProcs :
          ~Includes(disk.index.data, ImportStatement(proc[p].federationConfig.name))

====
